---- MODULE Spec2Model ----
(***************************************************************************)
(* The OAuth 2.0 authorization-code client of OAuth2_Github.py and         *)
(* OAuth2_Google.py: the signed oauth_state cookie, the /callback state    *)
(* check with its emergency branch, the token exchange, the user-info      *)
(* request and the Flask session.                                          *)
(*                                                                         *)
(* Optional values (a cookie, a query parameter, Python's None) are        *)
(* sequences: <<>> is "absent", <<v>> is "present with value v".           *)
(***************************************************************************)
EXTENDS Integers, Sequences, FiniteSets, TLC

VARIABLES
    online,     \* the browsers that talk to the server
    provider,   \* which of the two applications runs: "github" or "google"
    env,        \* the environment read at import: client id, secret, FLASK_SECRET_KEY
    proc,       \* "serving" or "failed" (RuntimeError at import)
    secret,     \* app.secret_key of the running process
    epoch,      \* number of random secrets drawn after the first start
    now,        \* the clock, in seconds
    nticks,     \* number of clock steps taken
    minted,     \* number of states /login has generated
    issued,     \* every /login so far: the browser, the cookie set, the state in
                \* the authorize URL, the signing key
    jar,        \* per browser: the oauth_state and test_cookie cookies it holds
    sess,       \* per browser: the Flask session cookie it holds
    last,       \* the request being answered and its response, until delivered
    track,      \* history is kept in `passed` (fixed at the start)
    passed      \* history: the state values that have passed state verification

vars == <<online, provider, env, proc, secret, epoch, now, nticks, minted, issued, jar, sess, last, track, passed>>

-----------------------------------------------------------------------------
(* Bounds of the model *)

MaxLogins == 2
MaxTicks == 2
MaxRestarts == 1

Browsers == {"A", "B"}

-----------------------------------------------------------------------------
(* Optional values *)

None == <<>>
Some(v) == <<v>>
IsSome(o) == o # <<>>
Val(o) == o[1]

\* Python truthiness of an optional string: None and "" are falsy
Truthy(o) == IsSome(o) /\ Len(Val(o)) > 0

-----------------------------------------------------------------------------
(* Program constants *)

\* max_age of the oauth_state cookie and of loads()
MaxAge == 600

\* the emergency branch wants len(received_state) > 20
MinStateLen == 20

\* secrets.token_urlsafe(32) yields 43 URL-safe characters
Digits == <<"0", "1", "2", "3", "4", "5", "6", "7", "8", "9">>
StatePrefix == "Zq3xW8rT1uYb6NcK0pLmA7dVfE2sHgJ9oIiUyXtRwQ"
MintedState(n) == StatePrefix \o Digits[n + 1]

\* keys: the attacker's own key, the configured FLASK_SECRET_KEY, and the
\* random secrets.token_hex(32) of the e-th process start
AttackerKey == <<"client">>
ConfiguredKey == <<"FLASK_SECRET_KEY">>
RandomKey(e) == <<"token_hex", e>>

\* the key of a browser that holds no session cookie
NoKey == <<"none">>

-----------------------------------------------------------------------------
(* Startup *)

\* lines 30-34 as they would be if only CLIENT_ID were looked at
ConfigOk_IdOnly(e) == Truthy(e.client_id)

\* lines 20-34: if not CLIENT_ID or not CLIENT_SECRET: raise RuntimeError
ConfigOk(e) == Truthy(e.client_id) /\ Truthy(e.client_secret)

\* line 14 as it would be with a generator seeded alike at every start
SecretKey_FixedSeed(e, ep) == IF Truthy(e.flask_secret) THEN ConfiguredKey ELSE RandomKey(0)

\* line 14: os.environ.get("FLASK_SECRET_KEY") or secrets.token_hex(32)
SecretKey(e, ep) == IF Truthy(e.flask_secret) THEN ConfiguredKey ELSE RandomKey(ep)

Envs ==
    [client_id : {None, Some(""), Some("cid")},
     client_secret : {None, Some(""), Some("csecret")},
     flask_secret : {None, Some("fsk")}]

-----------------------------------------------------------------------------
(* URLSafeTimedSerializer: a token is <<payload, timestamp, signature>>;    *)
(* a truncated token is a shorter sequence, the empty string is <<>>        *)

\* the payload: the JSON encoding of the state, base64-encoded
EncodePayload(s) == [b64json |-> s]
PayloadOk(p) == DOMAIN p = {"b64json"}
DecodePayload(p) == p.b64json

\* the MAC of (payload, timestamp) under key k
Mac(k, p, ts) == [key |-> k, payload |-> p, ts |-> ts]

\* cookie_serializer.dumps(state)
Dumps(k, s, t) == <<EncodePayload(s), t, Mac(k, EncodePayload(s), t)>>

\* loads() as it would be without the signature comparison
Loads_NoMac(k, tok, max_age, t) ==
    IF Len(tok) < 3
        THEN [ok |-> FALSE, exc |-> "BadSignature"]
    ELSE IF t - tok[2] > max_age \/ t - tok[2] < 0
        THEN [ok |-> FALSE, exc |-> "SignatureExpired"]
    ELSE IF ~PayloadOk(tok[1])
        THEN [ok |-> FALSE, exc |-> "BadPayload"]
    ELSE [ok |-> TRUE, value |-> DecodePayload(tok[1])]

\* loads() as it would be without the age check
Loads_NoExpiry(k, tok, max_age, t) ==
    IF Len(tok) < 3
        THEN [ok |-> FALSE, exc |-> "BadSignature"]
    ELSE IF tok[3] # Mac(k, tok[1], tok[2])
        THEN [ok |-> FALSE, exc |-> "BadSignature"]
    ELSE IF ~PayloadOk(tok[1])
        THEN [ok |-> FALSE, exc |-> "BadPayload"]
    ELSE [ok |-> TRUE, value |-> DecodePayload(tok[1])]

\* loads() as it would be if a token expired at max_age instead of after it
Loads_StrictAge(k, tok, max_age, t) ==
    IF Len(tok) < 3
        THEN [ok |-> FALSE, exc |-> "BadSignature"]
    ELSE IF tok[3] # Mac(k, tok[1], tok[2])
        THEN [ok |-> FALSE, exc |-> "BadSignature"]
    ELSE IF t - tok[2] >= max_age \/ t - tok[2] < 0
        THEN [ok |-> FALSE, exc |-> "SignatureExpired"]
    ELSE IF ~PayloadOk(tok[1])
        THEN [ok |-> FALSE, exc |-> "BadPayload"]
    ELSE [ok |-> TRUE, value |-> DecodePayload(tok[1])]

\* cookie_serializer.loads(token, max_age): the payload, or the exception
\* raised.  BadTimeSignature and SignatureExpired are subclasses of
\* BadSignature; BadPayload is not.
Loads(k, tok, max_age, t) ==
    IF Len(tok) < 3
        THEN [ok |-> FALSE, exc |-> "BadSignature"]
    ELSE IF tok[3] # Mac(k, tok[1], tok[2])
        THEN [ok |-> FALSE, exc |-> "BadSignature"]
    ELSE IF t - tok[2] > max_age \/ t - tok[2] < 0
        THEN [ok |-> FALSE, exc |-> "SignatureExpired"]
    ELSE IF ~PayloadOk(tok[1])
        THEN [ok |-> FALSE, exc |-> "BadPayload"]
    ELSE [ok |-> TRUE, value |-> DecodePayload(tok[1])]

IsBadSignature(r) == ~r.ok /\ r.exc \in {"BadSignature", "BadTimeSignature", "SignatureExpired"}

-----------------------------------------------------------------------------
(* The clock: it advances by MaxAge and by one second in turn, so that a    *)
(* token is seen at age 600 (still valid) and at age 601 (expired)          *)

TickStep(n) == IF n % 2 = 0 THEN MaxAge ELSE 1

-----------------------------------------------------------------------------
(* The session: Flask keeps it in a cookie signed with app.secret_key; a    *)
(* cookie signed under another key is read as an empty session              *)

EmptySession == [user |-> None, key |-> NoKey]

\* session.get("user") as the running process reads browser b's cookie
SessionUser(sc, k) == IF sc.key = k THEN sc.user ELSE None

\* "user" in session
HasUser(sc, k) == IsSome(SessionUser(sc, k))

-----------------------------------------------------------------------------
(* The provider's answers *)

\* a Python dict lookup with a default
Get(d, k, default) == IF k \in DOMAIN d THEN d[k] ELSE default

\* Python's None as a profile field
PyNone == "<None>"

\* user_response.json(): two accounts, the second without a display name
RawUsers ==
    {[id |-> "42", login |-> "ada", name |-> "Ada", email |-> "ada@example.org",
      avatar_url |-> "https://img/ada", picture |-> "https://img/ada",
      bio |-> "countess", public_repos |-> 3, html_url |-> "https://hub/ada",
      verified_email |-> TRUE],
     [id |-> "7", login |-> "bob", email |-> "bob@example.org"]}

\* session["user"] = {...} of OAuth2_Github.py
GithubProfile(d) ==
    [id |-> Get(d, "id", PyNone),
     login |-> Get(d, "login", PyNone),
     name |-> Get(d, "name", PyNone),
     email |-> Get(d, "email", PyNone),
     avatar_url |-> Get(d, "avatar_url", PyNone),
     bio |-> Get(d, "bio", PyNone),
     public_repos |-> Get(d, "public_repos", 0),
     html_url |-> Get(d, "html_url", PyNone)]

\* session["user"] = {...} of OAuth2_Google.py
GoogleProfile(d) ==
    [id |-> Get(d, "id", PyNone),
     email |-> Get(d, "email", PyNone),
     name |-> Get(d, "name", Get(d, "email", "User")),
     picture |-> Get(d, "picture", "https://via.placeholder.com/100"),
     verified_email |-> Get(d, "verified_email", FALSE)]

\* variant: each application stores the other one's fields
MapProfile_Swapped(p, d) == IF p = "github" THEN GoogleProfile(d) ELSE GithubProfile(d)

MapProfile(p, d) == IF p = "github" THEN GithubProfile(d) ELSE GoogleProfile(d)

\* what requests.post(TOKEN_URL, ...) can come back with: a response with a
\* status and an access_token field, an exception (timeout, no connection),
\* or a 200 whose body .json() cannot parse
TokenResponses ==
    {[kind |-> "http", status |-> 200, access_token |-> Some("tok")],
     [kind |-> "http", status |-> 200, access_token |-> None],
     [kind |-> "http", status |-> 400, access_token |-> None],
     [kind |-> "raise", status |-> 0, access_token |-> None],
     [kind |-> "badjson", status |-> 200, access_token |-> None]}

\* what requests.get(USER_API_URL, ...) can come back with
UserResponses ==
    {[kind |-> "http", status |-> 200, user_data |-> Some(d)] : d \in RawUsers}
    \cup {[kind |-> "http", status |-> 401, user_data |-> None],
          [kind |-> "raise", status |-> 0, user_data |-> None],
          [kind |-> "badjson", status |-> 200, user_data |-> None]}

-----------------------------------------------------------------------------
(* Requests and responses *)

\* a Set-Cookie that stores a value for max_age seconds
SetCookie(v, max_age) == Some([val |-> v, max_age |-> max_age])

\* the request and response record kept in `last`
NoRequest ==
    [route |-> "none", browser |-> "none",
     cookie |-> None, state |-> None, error |-> None, code |-> None,
     status |-> 0, page |-> "none", location |-> None,
     set_oauth_state |-> None, set_test_cookie |-> None,
     verified |-> "no", calls |-> <<>>,
     token_resp |-> None, user_resp |-> None,
     write_user |-> None, user_before |-> None, handler_ran |-> FALSE,
     shown |-> None]

\* render_template_string(error_page(msg)), 400
ErrorPage(req, name) == [req EXCEPT !.status = 400, !.page = name]

\* an exception nothing catches: Flask answers 500
Unhandled(req) == [req EXCEPT !.status = 500, !.page = "Unhandled"]

\* redirect(url)
Redirect(req, url) == [req EXCEPT !.status = 302, !.page = "redirect", !.location = Some(url)]

\* url_for(endpoint)
UrlFor(path) == [base |-> path, client_id |-> None, redirect_uri |-> None, state |-> None]

\* REDIRECT_URI (line 22), at its default
RedirectUri == "http://localhost:5000/callback"

\* lines 247-254: the authorize URL, the state interpolated as it is
AuthUrl(e, state) ==
    [base |-> "authorize", client_id |-> e.client_id,
     redirect_uri |-> Some(RedirectUri), state |-> Some(state)]

\* a rendered page
Page(req, name) == [req EXCEPT !.status = 200, !.page = name]

-----------------------------------------------------------------------------
(* The browser: it stores what a delivered response sets and drops what     *)
(* that response expires                                                    *)

NoCookies == [oauth_state |-> None, test_cookie |-> None]

\* one cookie of the jar as it would be if a cookie once stored were kept
\* until it is expired
Store_KeepFirst(old, d, t) ==
    IF ~IsSome(d) THEN old
    ELSE IF Val(d).max_age <= 0 THEN None
    ELSE IF IsSome(old) THEN old
    ELSE Some([val |-> Val(d).val, exp |-> t + Val(d).max_age])

\* one cookie of the jar after a response with Set-Cookie directive d
Store(old, d, t) ==
    IF ~IsSome(d) THEN old
    ELSE IF Val(d).max_age <= 0 THEN None
    ELSE Some([val |-> Val(d).val, exp |-> t + Val(d).max_age])

ApplyCookies(j, resp, t) ==
    [oauth_state |-> Store(j.oauth_state, resp.set_oauth_state, t),
     test_cookie |-> Store(j.test_cookie, resp.set_test_cookie, t)]

\* a cookie of the jar once the clock shows t
Expire(c, t) == IF IsSome(c) /\ Val(c).exp <= t THEN None ELSE c

\* the oauth_state value browser b sends by itself
JarCookie(j) == IF IsSome(j.oauth_state) THEN Some(Val(j.oauth_state).val) ELSE None

-----------------------------------------------------------------------------
(* /login, lines 241-280 *)

\* variant: the cookie signs a second draw of the generator, not the state
\* of the URL
LoginResponse_SecondDraw(req, e, k, state, t) ==
    [Redirect(req, AuthUrl(e, state)) EXCEPT
        !.set_oauth_state = SetCookie(Dumps(k, state \o "x", t), MaxAge),
        !.set_test_cookie = SetCookie("works", MaxAge)]

LoginResponse(req, e, k, state, t) ==
    [Redirect(req, AuthUrl(e, state)) EXCEPT
        !.set_oauth_state = SetCookie(Dumps(k, state, t), MaxAge),
        !.set_test_cookie = SetCookie("works", MaxAge)]

-----------------------------------------------------------------------------
(* _handle_oauth_callback, lines 309-376 *)

\* lines 312-314: the response object the cookies are cleared on
ClearingResponse(req) ==
    [req EXCEPT !.set_oauth_state = SetCookie(<<>>, 0),
                !.set_test_cookie = SetCookie("", 0)]

\* the object each return statement of the function hands back: a fresh
\* render_template_string(...) or redirect(...), not the object of 312-314
Returned(req, cleared) == req

\* the function as it would be without the check of the error parameter
HandleOAuthCallback_NoErrorCheck(req, prov, tr, ur) ==
    LET r0 == Returned(req, ClearingResponse(req)) IN
    IF ~Truthy(req.code)
        THEN ErrorPage(r0, "AuthorizationCodeMissing")
    ELSE
    LET r1 == [r0 EXCEPT !.calls = <<"token">>, !.token_resp = Some(tr)] IN
    IF tr.kind = "raise"
        THEN Unhandled(r1)
    ELSE IF tr.status # 200
        THEN ErrorPage(r1, "TokenExchangeFailed")
    ELSE IF tr.kind = "badjson"
        THEN Unhandled(r1)
    ELSE IF ~Truthy(tr.access_token)
        THEN ErrorPage(r1, "NoAccessToken")
    ELSE
    LET r2 == [r1 EXCEPT !.calls = <<"token", "userinfo">>, !.user_resp = Some(ur)] IN
    IF ur.kind = "raise"
        THEN Unhandled(r2)
    ELSE IF ur.status # 200
        THEN ErrorPage(r2, "ProfileFetchFailed")
    ELSE IF ur.kind = "badjson"
        THEN Unhandled(r2)
    ELSE Redirect([r2 EXCEPT !.write_user = Some(MapProfile(prov, Val(ur.user_data)))],
                  UrlFor("/welcome"))

\* the function as it would be without the check of the token response status
HandleOAuthCallback_IgnoreStatus(req, prov, tr, ur) ==
    LET r0 == Returned(req, ClearingResponse(req)) IN
    IF IsSome(req.error)
        THEN ErrorPage(r0, "ProviderError")
    ELSE IF ~Truthy(req.code)
        THEN ErrorPage(r0, "AuthorizationCodeMissing")
    ELSE
    LET r1 == [r0 EXCEPT !.calls = <<"token">>, !.token_resp = Some(tr)] IN
    IF tr.kind = "raise"
        THEN Unhandled(r1)
    ELSE IF tr.kind = "badjson"
        THEN Unhandled(r1)
    ELSE IF ~Truthy(tr.access_token)
        THEN ErrorPage(r1, "NoAccessToken")
    ELSE
    LET r2 == [r1 EXCEPT !.calls = <<"token", "userinfo">>, !.user_resp = Some(ur)] IN
    IF ur.kind = "raise"
        THEN Unhandled(r2)
    ELSE IF ur.status # 200
        THEN ErrorPage(r2, "ProfileFetchFailed")
    ELSE IF ur.kind = "badjson"
        THEN Unhandled(r2)
    ELSE Redirect([r2 EXCEPT !.write_user = Some(MapProfile(prov, Val(ur.user_data)))],
                  UrlFor("/welcome"))

\* the function as it would be if the failed profile fetch did not return:
\* the session is written from a body without the profile fields
HandleOAuthCallback_FallThrough(req, prov, tr, ur) ==
    LET r0 == Returned(req, ClearingResponse(req)) IN
    IF IsSome(req.error)
        THEN ErrorPage(r0, "ProviderError")
    ELSE IF ~Truthy(req.code)
        THEN ErrorPage(r0, "AuthorizationCodeMissing")
    ELSE
    LET r1 == [r0 EXCEPT !.calls = <<"token">>, !.token_resp = Some(tr)] IN
    IF tr.kind = "raise"
        THEN Unhandled(r1)
    ELSE IF tr.status # 200
        THEN ErrorPage(r1, "TokenExchangeFailed")
    ELSE IF tr.kind = "badjson"
        THEN Unhandled(r1)
    ELSE IF ~Truthy(tr.access_token)
        THEN ErrorPage(r1, "NoAccessToken")
    ELSE
    LET r2 == [r1 EXCEPT !.calls = <<"token", "userinfo">>, !.user_resp = Some(ur)] IN
    IF ur.kind = "raise" \/ ur.kind = "badjson"
        THEN Unhandled(r2)
    ELSE Redirect([r2 EXCEPT !.write_user =
                        Some(MapProfile(prov, IF ur.status # 200 THEN <<>> ELSE Val(ur.user_data)))],
                  UrlFor("/welcome"))

\* _handle_oauth_callback as it would be if it posted the code a second time
\* after a refusal of the token endpoint
HandleOAuthCallback_Retry(req, prov, tr, ur) ==
    LET r0 == Returned(req, ClearingResponse(req)) IN
    IF IsSome(req.error)
        THEN ErrorPage(r0, "ProviderError")
    ELSE IF ~Truthy(req.code)
        THEN ErrorPage(r0, "AuthorizationCodeMissing")
    ELSE
    LET r1 == [r0 EXCEPT !.calls = <<"token">>, !.token_resp = Some(tr)] IN
    IF tr.kind = "raise"
        THEN Unhandled(r1)
    ELSE IF tr.status # 200
        THEN ErrorPage([r1 EXCEPT !.calls = <<"token", "token">>], "TokenExchangeFailed")
    ELSE IF tr.kind = "badjson"
        THEN Unhandled(r1)
    ELSE IF ~Truthy(tr.access_token)
        THEN ErrorPage(r1, "NoAccessToken")
    ELSE
    LET r2 == [r1 EXCEPT !.calls = <<"token", "userinfo">>, !.user_resp = Some(ur)] IN
    IF ur.kind = "raise"
        THEN Unhandled(r2)
    ELSE IF ur.status # 200
        THEN ErrorPage(r2, "ProfileFetchFailed")
    ELSE IF ur.kind = "badjson"
        THEN Unhandled(r2)
    ELSE Redirect([r2 EXCEPT !.write_user = Some(MapProfile(prov, Val(ur.user_data)))],
                  UrlFor("/welcome"))

\* _handle_oauth_callback as it would be if it tested `code is None` where the
\* code tests `not code`
HandleOAuthCallback_CodeNotNone(req, prov, tr, ur) ==
    LET r0 == Returned(req, ClearingResponse(req)) IN
    IF IsSome(req.error)
        THEN ErrorPage(r0, "ProviderError")
    ELSE IF ~IsSome(req.code)
        THEN ErrorPage(r0, "AuthorizationCodeMissing")
    ELSE
    LET r1 == [r0 EXCEPT !.calls = <<"token">>, !.token_resp = Some(tr)] IN
    IF tr.kind = "raise"
        THEN Unhandled(r1)
    ELSE IF tr.status # 200
        THEN ErrorPage(r1, "TokenExchangeFailed")
    ELSE IF tr.kind = "badjson"
        THEN Unhandled(r1)
    ELSE IF ~Truthy(tr.access_token)
        THEN ErrorPage(r1, "NoAccessToken")
    ELSE
    LET r2 == [r1 EXCEPT !.calls = <<"token", "userinfo">>, !.user_resp = Some(ur)] IN
    IF ur.kind = "raise"
        THEN Unhandled(r2)
    ELSE IF ur.status # 200
        THEN ErrorPage(r2, "ProfileFetchFailed")
    ELSE IF ur.kind = "badjson"
        THEN Unhandled(r2)
    ELSE Redirect([r2 EXCEPT !.write_user = Some(MapProfile(prov, Val(ur.user_data)))],
                  UrlFor("/welcome"))

HandleOAuthCallback(req, prov, tr, ur) ==
    LET r0 == Returned(req, ClearingResponse(req)) IN
    IF IsSome(req.error)
        THEN ErrorPage(r0, "ProviderError")
    ELSE IF ~Truthy(req.code)
        THEN ErrorPage(r0, "AuthorizationCodeMissing")
    ELSE
    LET r1 == [r0 EXCEPT !.calls = <<"token">>, !.token_resp = Some(tr)] IN
    IF tr.kind = "raise"
        THEN Unhandled(r1)
    ELSE IF tr.status # 200
        THEN ErrorPage(r1, "TokenExchangeFailed")
    ELSE IF tr.kind = "badjson"
        THEN Unhandled(r1)
    ELSE IF ~Truthy(tr.access_token)
        THEN ErrorPage(r1, "NoAccessToken")
    ELSE
    LET r2 == [r1 EXCEPT !.calls = <<"token", "userinfo">>, !.user_resp = Some(ur)] IN
    IF ur.kind = "raise"
        THEN Unhandled(r2)
    ELSE IF ur.status # 200
        THEN ErrorPage(r2, "ProfileFetchFailed")
    ELSE IF ur.kind = "badjson"
        THEN Unhandled(r2)
    ELSE Redirect([r2 EXCEPT !.write_user = Some(MapProfile(prov, Val(ur.user_data)))],
                  UrlFor("/welcome"))

-----------------------------------------------------------------------------
(* /callback, lines 283-306 *)

\* callback() as it would be if it only asked for some state parameter
CallbackResponse_NoCompare(req, prov, k, t, tr, ur) ==
    IF ~(IsSome(req.cookie) /\ Len(Val(req.cookie)) > 0)
        THEN IF Truthy(req.state) /\ Len(Val(req.state)) > MinStateLen
                THEN HandleOAuthCallback([req EXCEPT !.verified = "emergency"], prov, tr, ur)
                ELSE ErrorPage(req, "StateCookieMissing")
    ELSE
    LET loaded == Loads(k, Val(req.cookie), MaxAge, t) IN
    IF IsBadSignature(loaded)
        THEN ErrorPage(req, "InvalidStateSignature")
    ELSE IF ~loaded.ok
        THEN Unhandled(req)
    ELSE IF ~Truthy(req.state)
        THEN ErrorPage(req, "StateMismatch")
    ELSE HandleOAuthCallback([req EXCEPT !.verified = "cookie"], prov, tr, ur)

\* callback() as it would be with len(received_state) >= 20
CallbackResponse_LowThreshold(req, prov, k, t, tr, ur) ==
    IF ~(IsSome(req.cookie) /\ Len(Val(req.cookie)) > 0)
        THEN IF Truthy(req.state) /\ Len(Val(req.state)) >= MinStateLen
                THEN HandleOAuthCallback([req EXCEPT !.verified = "emergency"], prov, tr, ur)
                ELSE ErrorPage(req, "StateCookieMissing")
    ELSE
    LET loaded == Loads(k, Val(req.cookie), MaxAge, t) IN
    IF IsBadSignature(loaded)
        THEN ErrorPage(req, "InvalidStateSignature")
    ELSE IF ~loaded.ok
        THEN Unhandled(req)
    ELSE IF ~Truthy(req.state) \/ Val(req.state) # loaded.value
        THEN ErrorPage(req, "StateMismatch")
    ELSE HandleOAuthCallback([req EXCEPT !.verified = "cookie"], prov, tr, ur)

CallbackResponse(req, prov, k, t, tr, ur) ==
    IF ~(IsSome(req.cookie) /\ Len(Val(req.cookie)) > 0)
        THEN IF Truthy(req.state) /\ Len(Val(req.state)) > MinStateLen
                THEN HandleOAuthCallback([req EXCEPT !.verified = "emergency"], prov, tr, ur)
                ELSE ErrorPage(req, "StateCookieMissing")
    ELSE
    LET loaded == Loads(k, Val(req.cookie), MaxAge, t) IN
    IF IsBadSignature(loaded)
        THEN ErrorPage(req, "InvalidStateSignature")
    ELSE IF ~loaded.ok
        THEN Unhandled(req)
    ELSE IF ~Truthy(req.state) \/ Val(req.state) # loaded.value
        THEN ErrorPage(req, "StateMismatch")
    ELSE HandleOAuthCallback([req EXCEPT !.verified = "cookie"], prov, tr, ur)

-----------------------------------------------------------------------------
(* login_required (lines 223-229) and the routes it guards *)

\* variant: the decorator looks for the key in the cookie and not in the
\* session the process reads from it
LoginRequired_AnyKey(req, sc, k, handled) ==
    IF ~IsSome(sc.user) THEN Redirect(req, UrlFor("/")) ELSE handled

LoginRequired(req, sc, k, handled) ==
    IF ~HasUser(sc, k) THEN Redirect(req, UrlFor("/")) ELSE handled

\* home() as it would be if it sent every browser on to /welcome
HomeResponse_AlwaysOn(req, sc, k) == Redirect(req, UrlFor("/welcome"))

\* lines 232-238
HomeResponse(req, sc, k) ==
    IF HasUser(sc, k) THEN Redirect(req, UrlFor("/welcome")) ELSE Page(req, "home")

\* lines 379-387
WelcomeResponse(req, sc, k) ==
    LoginRequired(req, sc, k, [Page(req, "welcome") EXCEPT !.handler_ran = TRUE])

\* lines 390-404
DashboardResponse(req, sc, k) ==
    LoginRequired(req, sc, k,
        [Page(req, "dashboard") EXCEPT !.handler_ran = TRUE, !.shown = SessionUser(sc, k)])

\* lines 407-410
LogoutResponse(req) == Redirect(req, UrlFor("/"))

-----------------------------------------------------------------------------
(* What a client can put in a /callback request *)

\* a state of exactly MinStateLen characters, and one character more
State20 == "aaaaaaaaaaaaaaaaaaaa"
State21 == "aaaaaaaaaaaaaaaaaaaaa"

\* a token cut after its timestamp
Truncate(tok) == SubSeq(tok, 1, 2)

\* a token whose payload was replaced, the signature kept
Retarget(tok, s) == <<EncodePayload(s), tok[2], tok[3]>>

\* a token signed with a key of the client's own
Forge(s, t) == Dumps(AttackerKey, s, t)

\* the client that makes cookies and states of its own is followed with one
\* browser on line; with two, a request carries no cookie or one a login
\* issued (to either browser), and no state or one a login drew
Tampering == online # Browsers

CookieChoices(b) ==
    {None}
    \cup {Some(i.tok) : i \in issued}
    \cup (IF Tampering THEN {Some(<<>>), Some(Forge(State21, now))} ELSE {})
    \cup (IF Tampering /\ IsSome(jar[b].oauth_state)
            THEN LET tok == Val(jar[b].oauth_state).val IN
                 {Some(Truncate(tok)), Some(Retarget(tok, State21))}
            ELSE {})

StateChoices ==
    {None}
    \cup {Some(MintedState(i)) : i \in 0 .. minted - 1}
    \cup (IF Tampering THEN {Some(""), Some(State20), Some(State21)} ELSE {})

ErrorChoices == {None, Some("access_denied")}

CodeChoices == {None, Some(""), Some("abc")}

-----------------------------------------------------------------------------
(* The state machine *)

Request(route, b) ==
    [NoRequest EXCEPT !.route = route, !.browser = b,
                      !.user_before = SessionUser(sess[b], secret)]

\* no response is on its way to a browser
Idle == last.route = "none"

\* what every start has in common
Started ==
    /\ proc = IF ConfigOk(env) THEN "serving" ELSE "failed"
    /\ secret = SecretKey(env, 0)
    /\ epoch = 0
    /\ now = 0
    /\ nticks = 0
    /\ minted = 0
    /\ issued = {}
    /\ jar = [b \in Browsers |-> NoCookies]
    /\ sess = [b \in Browsers |-> EmptySession]
    /\ last = NoRequest
    /\ passed = {}

\* one browser, either application, any environment
Init ==
    /\ track = FALSE
    /\ online = {"A"}
    /\ provider \in {"github", "google"}
    /\ env \in Envs
    /\ Started

\* two browsers, one application, a complete environment without FLASK_SECRET_KEY
InitTwo ==
    /\ track = FALSE
    /\ online = Browsers
    /\ provider = "github"
    /\ env = [client_id |-> Some("cid"), client_secret |-> Some("csecret"), flask_secret |-> None]
    /\ Started

Home(b) ==
    /\ proc = "serving" /\ Idle
    /\ last' = HomeResponse(Request("home", b), sess[b], secret)
    /\ UNCHANGED <<track, passed, online, provider, env, proc, secret, epoch, now, nticks, minted, issued, jar, sess>>

Login(b) ==
    /\ proc = "serving" /\ Idle
    /\ minted < MaxLogins
    /\ LET state == MintedState(minted)
           resp == LoginResponse(Request("login", b), env, secret, state, now)
       IN /\ last' = resp
          /\ issued' = issued \cup {[to |-> b, tok |-> Val(resp.set_oauth_state).val,
                                      state |-> Val(Val(resp.location).state),
                                      key |-> secret]}
    /\ minted' = minted + 1
    /\ UNCHANGED <<track, passed, online, provider, env, proc, secret, epoch, now, nticks, jar, sess>>

\* the provider answers the calls the handler makes, and only those
AnyTokenResponse == CHOOSE tr \in TokenResponses : TRUE
AnyUserResponse == CHOOSE ur \in UserResponses : TRUE

TokenAnswers(req) ==
    IF CallbackResponse(req, provider, secret, now, AnyTokenResponse, AnyUserResponse).calls = <<>>
        THEN {AnyTokenResponse} ELSE TokenResponses

UserAnswers(req, tr) ==
    IF Len(CallbackResponse(req, provider, secret, now, tr, AnyUserResponse).calls) < 2
        THEN {AnyUserResponse} ELSE UserResponses

\* the callback as it would be if it added the fetched profile to what the
\* session holds
Callback_Append(b) ==
    /\ proc = "serving" /\ Idle
    /\ \E cookie \in CookieChoices(b), state \in StateChoices,
          error \in ErrorChoices, code \in CodeChoices :
        LET req == [Request("callback", b) EXCEPT
                        !.cookie = cookie, !.state = state,
                        !.error = error, !.code = code]
        IN \E tr \in TokenAnswers(req) : \E ur \in UserAnswers(req, tr) :
            LET resp == CallbackResponse(req, provider, secret, now, tr, ur)
            IN /\ last' = resp
               /\ sess' = IF IsSome(resp.write_user)
                            THEN [sess EXCEPT ![b] = [user |-> SessionUser(sess[b], secret) \o resp.write_user,
                                                       key |-> secret]]
                            ELSE sess
               /\ passed' = IF track /\ resp.verified # "no"
                              THEN passed \cup {Val(state)} ELSE passed
    /\ UNCHANGED <<track, online, provider, env, proc, secret, epoch, now, nticks, minted, issued, jar>>

Callback(b) ==
    /\ proc = "serving" /\ Idle
    /\ \E cookie \in CookieChoices(b), state \in StateChoices,
          error \in ErrorChoices, code \in CodeChoices :
        LET req == [Request("callback", b) EXCEPT
                        !.cookie = cookie, !.state = state,
                        !.error = error, !.code = code]
        IN \E tr \in TokenAnswers(req) : \E ur \in UserAnswers(req, tr) :
            LET resp == CallbackResponse(req, provider, secret, now, tr, ur)
            IN /\ last' = resp
               /\ sess' = IF IsSome(resp.write_user)
                            THEN [sess EXCEPT ![b] = [user |-> resp.write_user, key |-> secret]]
                            ELSE sess
               /\ passed' = IF track /\ resp.verified # "no"
                              THEN passed \cup {Val(state)} ELSE passed
    /\ UNCHANGED <<track, online, provider, env, proc, secret, epoch, now, nticks, minted, issued, jar>>

Welcome(b) ==
    /\ proc = "serving" /\ Idle
    /\ last' = WelcomeResponse(Request("welcome", b), sess[b], secret)
    /\ UNCHANGED <<track, passed, online, provider, env, proc, secret, epoch, now, nticks, minted, issued, jar, sess>>

Dashboard(b) ==
    /\ proc = "serving" /\ Idle
    /\ last' = DashboardResponse(Request("dashboard", b), sess[b], secret)
    /\ UNCHANGED <<track, passed, online, provider, env, proc, secret, epoch, now, nticks, minted, issued, jar, sess>>

\* logout as it would be if the sessions were kept in one store of the
\* process and session.clear() emptied it
Logout_ClearAll(b) ==
    /\ proc = "serving" /\ Idle
    /\ last' = LogoutResponse(Request("logout", b))
    /\ sess' = [x \in Browsers |-> EmptySession]
    /\ UNCHANGED <<track, passed, online, provider, env, proc, secret, epoch, now, nticks, minted, issued, jar>>

\* variant: logout drops the session only when it holds a user, and
\* answers an anonymous browser with the home page
Logout_OnlyIfUser(b) ==
    /\ proc = "serving" /\ Idle
    /\ last' = IF HasUser(sess[b], secret)
                  THEN LogoutResponse(Request("logout", b))
                  ELSE Page(Request("logout", b), "home")
    /\ sess' = [sess EXCEPT ![b] = EmptySession]
    /\ UNCHANGED <<track, passed, online, provider, env, proc, secret, epoch, now, nticks, minted, issued, jar>>

Logout(b) ==
    /\ proc = "serving" /\ Idle
    /\ last' = LogoutResponse(Request("logout", b))
    /\ sess' = [sess EXCEPT ![b] = EmptySession]
    /\ UNCHANGED <<track, passed, online, provider, env, proc, secret, epoch, now, nticks, minted, issued, jar>>

\* the response reaches the browser, which stores and drops cookies as the
\* response's Set-Cookie headers say
Deliver ==
    /\ ~Idle
    /\ jar' = [jar EXCEPT ![last.browser] = ApplyCookies(jar[last.browser], last, now)]
    /\ last' = NoRequest
    /\ UNCHANGED <<track, passed, online, provider, env, proc, secret, epoch, now, nticks, minted, issued, sess>>

\* time passes; a browser drops the cookies whose max-age has run out
Tick ==
    /\ Idle
    /\ nticks < MaxTicks
    /\ nticks' = nticks + 1
    /\ now' = now + TickStep(nticks)
    /\ jar' = [b \in Browsers |->
                [oauth_state |-> Expire(jar[b].oauth_state, now'),
                 test_cookie |-> Expire(jar[b].test_cookie, now')]]
    /\ UNCHANGED <<track, passed, online, provider, env, proc, secret, epoch, minted, issued, sess, last>>

\* the process is started again: the module is imported anew
Restart ==
    /\ Idle
    /\ epoch < MaxRestarts
    /\ epoch' = IF Truthy(env.flask_secret) THEN epoch ELSE epoch + 1
    /\ secret' = SecretKey(env, epoch')
    /\ proc' = IF ConfigOk(env) THEN "serving" ELSE "failed"
    /\ UNCHANGED <<track, passed, online, provider, env, now, nticks, minted, issued, jar, sess, last>>

Next ==
    \/ \E b \in online : Home(b)
    \/ \E b \in online : Login(b)
    \/ \E b \in online : Callback(b)
    \/ \E b \in online : Welcome(b)
    \/ \E b \in online : Dashboard(b)
    \/ \E b \in online : Logout(b)
    \/ Deliver
    \/ Tick
    \/ Restart

Spec == Init /\ [][Next]_vars

SpecTwo == InitTwo /\ [][Next]_vars

\* one browser, one application, with the history of verified states
InitReplay ==
    /\ track = TRUE
    /\ online = {"A"}
    /\ provider = "google"
    /\ env = [client_id |-> Some("cid"), client_secret |-> Some("csecret"), flask_secret |-> None]
    /\ Started

SpecReplay == InitReplay /\ [][Next]_vars

-----------------------------------------------------------------------------
(* Vocabulary of the properties.  While a response is on its way (~Idle)   *)
(* the clock and the secret are those the handler used.                     *)

IsCallback == last.route = "callback"

\* the request carried an oauth_state cookie / one with a non-empty value
CookiePresent == IsSome(last.cookie)
CookieNonEmpty == IsSome(last.cookie) /\ Len(Val(last.cookie)) > 0

\* the request's cookie is the one /login i set
FromLogin(i) == last.cookie = Some(i.tok)

\* the cookie of /login i was signed under the running secret, at most
\* MaxAge seconds ago
Fresh(i) == i.key = secret /\ now - i.tok[2] <= MaxAge

\* the request's cookie is one the server can verify
Genuine == \E i \in issued : FromLogin(i) /\ Fresh(i)

StateAbsentOrEmpty == ~IsSome(last.state) \/ Val(last.state) = ""

NoNetworkCall == last.calls = <<>> /\ last.token_resp = None /\ last.user_resp = None

\* the session of the requesting browser is what it was before the request
SessionUnchanged ==
    /\ last.write_user = None
    /\ SessionUser(sess[last.browser], secret) = last.user_before

Failed400(name) == last.status = 400 /\ last.page = name

-----------------------------------------------------------------------------
(* C1: a /callback whose oauth_state cookie is present and verifies, and    *)
(* whose state parameter is absent, empty or different from the state       *)
(* recovered from the cookie, fails with StateMismatch (400), makes no      *)
(* token or user-info request and leaves the session unchanged.             *)

C1_StateMismatch ==
    \A i \in issued :
        (/\ IsCallback
         /\ FromLogin(i) /\ Fresh(i)
         /\ (StateAbsentOrEmpty \/ Val(last.state) # i.state))
        => (Failed400("StateMismatch") /\ NoNetworkCall /\ SessionUnchanged)

\* a signed-in browser presents a valid cookie with another, non-empty state
C1_Witness ==
    /\ IsCallback
    /\ Genuine
    /\ last.state = Some(State21)
    /\ IsSome(last.code) /\ last.error = None
    /\ IsSome(last.user_before)
    /\ Failed400("StateMismatch")

\* a valid cookie comes without any state parameter
C1_WitnessAbsent ==
    /\ IsCallback
    /\ Genuine
    /\ last.state = None
    /\ Failed400("StateMismatch")

-----------------------------------------------------------------------------
(* C2 as stated: every callback that writes a UserProfile into a browser's  *)
(* session follows a /login of that same browser, and its state is the one  *)
(* the server minted at that /login.                                        *)

C2_Original ==
    (IsCallback /\ IsSome(last.write_user))
    => \E i \in issued : i.to = last.browser /\ last.state = Some(i.state)

(* C2 amended: a callback that writes a UserProfile after passing the       *)
(* signed-cookie check carries the cookie of an earlier /login, no older    *)
(* than 600 s and signed under the running secret, and its state is the     *)
(* one minted at that /login; a callback that writes one through the        *)
(* emergency branch carried no usable cookie and a state longer than 20.    *)

C2_Amended ==
    (IsCallback /\ IsSome(last.write_user))
    => \/ /\ last.verified = "cookie"
          /\ \E i \in issued :
                /\ FromLogin(i) /\ Fresh(i)
                /\ last.state = Some(i.state)
       \/ /\ last.verified = "emergency"
          /\ ~CookieNonEmpty
          /\ Len(Val(last.state)) > MinStateLen

\* a profile is written through the signed-cookie branch
C2_Witness ==
    /\ IsCallback
    /\ IsSome(last.write_user)
    /\ last.verified = "cookie"
    /\ last.status = 302

-----------------------------------------------------------------------------
(* C3 as stated: a state value that has passed state verification in some   *)
(* callback does not pass it again in a later callback.                     *)

C3_SingleUse ==
    [][(last'.route = "callback" /\ last.route # "callback" /\ last'.verified # "no")
        => Val(last'.state) \notin passed]_vars

-----------------------------------------------------------------------------
(* C4 as stated: once the response to a callback that passed state         *)
(* verification, by either branch, has reached the browser, the browser     *)
(* holds neither the oauth_state nor the test_cookie cookie.                *)

C4_CookiesCleared ==
    [][(IsCallback /\ last.verified # "no" /\ last'.route = "none")
        => jar'[last.browser] = NoCookies]_vars

-----------------------------------------------------------------------------
(* C5: a /callback without an oauth_state cookie fails with                 *)
(* StateCookieMissing (400) and no network call when its state is absent    *)
(* or at most 20 long; with a longer state it goes on in emergency mode:    *)
(* ProviderError on an error parameter, AuthorizationCodeMissing without a  *)
(* code, the token request otherwise, whatever the server has minted.       *)

C5_NoCookie ==
    (IsCallback /\ ~CookiePresent)
    => IF ~IsSome(last.state) \/ Len(Val(last.state)) <= MinStateLen
         THEN Failed400("StateCookieMissing") /\ NoNetworkCall /\ last.verified = "no"
         ELSE /\ last.verified = "emergency"
              /\ IF IsSome(last.error) THEN Failed400("ProviderError")
                 ELSE IF ~IsSome(last.code) \/ Val(last.code) = ""
                    THEN Failed400("AuthorizationCodeMissing")
                 ELSE Len(last.calls) >= 1 /\ last.calls[1] = "token"

\* the emergency branch reaches the token endpoint with a state nobody minted
C5_Witness ==
    /\ IsCallback
    /\ ~CookiePresent
    /\ last.state = Some(State21)
    /\ issued = {}
    /\ last.verified = "emergency"
    /\ last.calls = <<"token", "userinfo">>
    /\ IsSome(last.write_user)

\* the threshold itself: a state of exactly 20 characters is refused
C5_Boundary ==
    /\ IsCallback
    /\ ~CookiePresent
    /\ last.state = Some(State20)
    /\ Failed400("StateCookieMissing")

-----------------------------------------------------------------------------
(* C6 as stated: every /callback with an error parameter is answered with   *)
(* the ProviderError page (400) and makes no network call.                  *)

C6_Original ==
    (IsCallback /\ IsSome(last.error))
    => (Failed400("ProviderError") /\ NoNetworkCall)

(* C6 amended: a /callback with an error parameter makes no network call    *)
(* and is answered with 400: with the ProviderError page when it passed     *)
(* state verification (signed cookie or emergency branch), and with the     *)
(* page of the state check that refused it otherwise.                       *)

C6_Amended ==
    (IsCallback /\ IsSome(last.error))
    => /\ NoNetworkCall
       /\ last.status = 400
       /\ SessionUnchanged
       /\ IF last.verified # "no"
            THEN last.page = "ProviderError"
            ELSE last.page \in {"StateCookieMissing", "InvalidStateSignature", "StateMismatch"}

\* the provider's error redirect of an honest login: cookie and state match
C6_Witness ==
    /\ IsCallback
    /\ last.error = Some("access_denied")
    /\ last.verified = "cookie"
    /\ IsSome(last.code)
    /\ Failed400("ProviderError")

-----------------------------------------------------------------------------
(* C7 as stated: a /callback whose oauth_state cookie is present and does   *)
(* not verify fails with InvalidStateSignature (400), makes no network call *)
(* and leaves the session unchanged.                                        *)

C7_Original ==
    (IsCallback /\ CookiePresent /\ ~Genuine)
    => (Failed400("InvalidStateSignature") /\ NoNetworkCall /\ SessionUnchanged)

(* C7 amended: the same for a cookie that is present with a non-empty       *)
(* value; a cookie with an empty value is handled as a missing cookie.      *)

C7_Amended ==
    /\ (IsCallback /\ CookieNonEmpty /\ ~Genuine)
        => (Failed400("InvalidStateSignature") /\ NoNetworkCall /\ SessionUnchanged)
    /\ (IsCallback /\ CookiePresent /\ ~CookieNonEmpty)
        => (last.verified = "emergency" \/ Failed400("StateCookieMissing"))

\* the cookie of a /login, signed under the running secret, comes back 601
\* seconds later with the matching state
C7_Witness ==
    /\ IsCallback
    /\ \E i \in issued :
        /\ FromLogin(i)
        /\ i.key = secret
        /\ now - i.tok[2] = MaxAge + 1
        /\ last.state = Some(i.state)
    /\ Failed400("InvalidStateSignature")

\* a cookie signed before a restart drew a new secret
C7_WitnessOtherSecret ==
    /\ IsCallback
    /\ \E i \in issued : FromLogin(i) /\ i.key # secret /\ last.state = Some(i.state)
    /\ Failed400("InvalidStateSignature")

\* a cookie cut short, and one whose payload was replaced
C7_WitnessTruncated ==
    /\ IsCallback
    /\ \E i \in issued : last.cookie = Some(Truncate(i.tok))
    /\ Failed400("InvalidStateSignature")

C7_WitnessTampered ==
    /\ IsCallback
    /\ \E i \in issued : last.cookie = Some(Retarget(i.tok, State21)) /\ last.state = Some(State21)
    /\ Failed400("InvalidStateSignature")

-----------------------------------------------------------------------------
(* C8: verifying the cookie of a /login under the secret it was signed      *)
(* with, at most 600 s after issue, gives back the state of the authorize   *)
(* URL; a callback with that cookie and that state passes the check.        *)

-----------------------------------------------------------------------------
(* C9: a /callback whose token request gets a non-200 response fails with   *)
(* TokenExchangeFailed (400), makes no user-info request and writes no      *)
(* session.                                                                 *)

TokenNon200 ==
    /\ IsCallback
    /\ IsSome(last.token_resp)
    /\ Val(last.token_resp).kind = "http"
    /\ Val(last.token_resp).status # 200

C9_TokenExchangeFailed ==
    TokenNon200
    => /\ Failed400("TokenExchangeFailed")
       /\ last.calls = <<"token">>
       /\ last.user_resp = None
       /\ SessionUnchanged

\* an anonymous browser's verified callback meets a 400 at the token endpoint
C9_Witness ==
    /\ TokenNon200
    /\ last.verified = "cookie"
    /\ last.user_before = None
    /\ ~HasUser(sess[last.browser], secret)
    /\ Failed400("TokenExchangeFailed")

-----------------------------------------------------------------------------
(* C10 as stated: after a /callback in which the token exchange or the      *)
(* profile fetch fails, the browser's session holds no UserProfile.         *)

\* the token request or the user-info request was made and did not give
\* what the handler asks of it
TokenFailed ==
    /\ IsSome(last.token_resp)
    /\ \/ Val(last.token_resp).kind # "http"
       \/ Val(last.token_resp).status # 200
       \/ ~Truthy(Val(last.token_resp).access_token)

ProfileFailed ==
    /\ IsSome(last.user_resp)
    /\ \/ Val(last.user_resp).kind # "http"
       \/ Val(last.user_resp).status # 200

AdapterFailed == IsCallback /\ (TokenFailed \/ ProfileFailed)

C10_Original ==
    AdapterFailed => ~HasUser(sess[last.browser], secret)

(* C10 amended: such a callback leaves the session as it found it: a        *)
(* browser without a UserProfile stays without one, and a browser that was  *)
(* Authenticated keeps the UserProfile it had.                              *)

C10_Amended ==
    AdapterFailed
    => /\ SessionUnchanged
       /\ last.status \in {400, 500}
       /\ last.location = None

\* the profile fetch fails for a browser that was Authenticated; it still is
C10_Witness ==
    /\ AdapterFailed
    /\ last.calls = <<"token", "userinfo">>
    /\ IsSome(last.user_before)
    /\ HasUser(sess[last.browser], secret)

(***************************************************************************)
(* C11.  The UserProfile a browser's session holds changes in two ways     *)
(* only.  A request is a step that takes the server from idle to a         *)
(* response in flight.                                                     *)
(***************************************************************************)

\* the step is the handling of one request
Handles == last.route = "none" /\ last'.route # "none"

\* the response in flight after the step is a callback that got through every
\* check and both provider calls
CallbackSucceeded ==
    /\ last'.route = "callback"
    /\ last'.verified # "no"
    /\ last'.error = None
    /\ Truthy(last'.code)
    /\ IsSome(last'.token_resp)
    /\ Val(last'.token_resp).kind = "http"
    /\ Val(last'.token_resp).status = 200
    /\ Truthy(Val(last'.token_resp).access_token)
    /\ IsSome(last'.user_resp)
    /\ Val(last'.user_resp).kind = "http"
    /\ Val(last'.user_resp).status = 200

\* C11: a request changes the UserProfile of a browser's session only when it
\* is that browser's /callback that passed the state check, had no error
\* parameter, had a code and got 200 from the token endpoint (with an access
\* token) and from the user-info endpoint, which writes it, or that browser's
\* /logout, which removes it; every other request leaves every session as it
\* was.
C11_SessionFrame ==
    [][Handles =>
        \A b \in Browsers :
            SessionUser(sess'[b], secret') # SessionUser(sess[b], secret)
            => /\ b = last'.browser
               /\ \/ CallbackSucceeded /\ HasUser(sess'[b], secret')
                  \/ last'.route = "logout" /\ ~HasUser(sess'[b], secret')]_vars

\* a successful callback has replaced the UserProfile of an Authenticated
\* browser by a different one
C11_Witness ==
    /\ IsCallback
    /\ IsSome(last.user_before)
    /\ IsSome(last.write_user)
    /\ last.write_user # last.user_before
    /\ SessionUser(sess[last.browser], secret) = last.write_user

\* a callback whose user-info call answered 401 has left the session alone
C11_WitnessProfile401 ==
    /\ IsCallback
    /\ IsSome(last.user_resp)
    /\ Val(last.user_resp).status = 401
    /\ IsSome(last.user_before)
    /\ SessionUnchanged

(***************************************************************************)
(* C12.  The success scenario.                                             *)
(***************************************************************************)

\* the callback in flight carries a code, no error, the cookie of a login
\* that is still fresh and the state of that login, and the provider answered
\* both calls with 200, an access token and the profile d
SuccessScenario(d) ==
    /\ IsCallback
    /\ \E i \in issued : FromLogin(i) /\ Fresh(i) /\ last.state = Some(i.state)
    /\ last.error = None
    /\ Truthy(last.code)
    /\ last.token_resp = Some([kind |-> "http", status |-> 200, access_token |-> Some("tok")])
    /\ last.user_resp = Some([kind |-> "http", status |-> 200, user_data |-> Some(d)])

\* the stored profile u carries the fields of the provider's answer d
MappedFrom(u, d) ==
    /\ u.id = d.id
    /\ u.email = d.email
    /\ "name" \in DOMAIN d => u.name = d.name
    /\ provider = "github" => DOMAIN u = DOMAIN GithubProfile(d) /\ u.login = d.login
    /\ provider = "google" => DOMAIN u = DOMAIN GoogleProfile(d)
                              /\ ("picture" \in DOMAIN d => u.picture = d.picture)

\* C12: after /login, a /callback with a code and the state of the cookie,
\* answered 200 with an access token by the token endpoint and 200 with a
\* profile by the user-info endpoint, leaves a session holding the profile
\* mapped from that answer and redirects to /welcome; a GET /dashboard of a
\* browser whose session holds a profile is served with that profile and is
\* not redirected.
C12_SuccessScenario ==
    /\ \A d \in RawUsers :
        SuccessScenario(d)
        => /\ last.status = 302
           /\ last.location = Some(UrlFor("/welcome"))
           /\ HasUser(sess[last.browser], secret)
           /\ MappedFrom(Val(SessionUser(sess[last.browser], secret)), d)
    /\ last.route = "dashboard" /\ IsSome(last.user_before)
        => /\ last.status = 200
           /\ last.page = "dashboard"
           /\ last.location = None
           /\ last.shown = last.user_before
           /\ last.shown = SessionUser(sess[last.browser], secret)

\* the scenario has run for the account without a display name
C12_Witness ==
    \E d \in RawUsers :
        /\ "name" \notin DOMAIN d
        /\ SuccessScenario(d)
        /\ last.verified = "cookie"
        /\ last.user_before = None

\* /dashboard is served with the profile a callback stored
C12_WitnessDashboard ==
    /\ last.route = "dashboard"
    /\ last.status = 200
    /\ \E d \in RawUsers : IsSome(last.shown) /\ Val(last.shown).id = d.id

(***************************************************************************)
(* C13.  What /login hands to the browser.                                 *)
(***************************************************************************)

\* C13: for every /login request, the state recovered from the signed
\* oauth_state cookie the response sets equals the state query parameter of
\* the authorize URL the same response redirects to, and the response also
\* sets the test_cookie probe cookie.
C13_LoginBinds ==
    last.route = "login"
    => /\ last.status = 302
       /\ IsSome(last.location)
       /\ IsSome(last.set_oauth_state)
       /\ Val(last.set_oauth_state).max_age = MaxAge
       /\ LET rec == Loads(secret, Val(last.set_oauth_state).val, MaxAge, now)
          IN /\ rec.ok
             /\ Some(rec.value) = Val(last.location).state
       /\ IsSome(last.set_test_cookie)
       /\ Val(last.set_test_cookie).val = "works"

\* the second login of a run has answered, after time has passed
C13_Witness ==
    /\ last.route = "login"
    /\ minted = 2
    /\ now > 0
    /\ IsSome(last.set_oauth_state)
    /\ Val(last.location).state = Some(MintedState(1))

(***************************************************************************)
(* C14.  The access guard of /welcome and /dashboard.                      *)
(***************************************************************************)

Guarded == last.route \in {"welcome", "dashboard"}

\* C14: for every request to /welcome or /dashboard, if the session holds no
\* user the response is a redirect and the wrapped handler is not invoked; if
\* it holds a user the wrapped handler is invoked.  No reachable state serves
\* the content of /welcome or /dashboard to a browser without a session.
C14_AccessGuard ==
    /\ Guarded
        => /\ ~HasUser(sess[last.browser], secret)
                => /\ last.status = 302
                   /\ last.location = Some(UrlFor("/"))
                   /\ ~last.handler_ran
                   /\ last.shown = None
           /\ HasUser(sess[last.browser], secret)
                => /\ last.handler_ran
                   /\ last.status = 200
                   /\ last.page = last.route
    /\ last.page \in {"welcome", "dashboard"}
        => Guarded /\ HasUser(sess[last.browser], secret)

\* /dashboard has turned away a browser whose cookie holds a profile the
\* running process does not recognise
C14_Witness ==
    /\ last.route = "dashboard"
    /\ IsSome(sess[last.browser].user)
    /\ ~HasUser(sess[last.browser], secret)
    /\ last.status = 302
    /\ ~last.handler_ran

\* /welcome has been served to an Authenticated browser
C14_WitnessServed ==
    /\ last.route = "welcome"
    /\ HasUser(sess[last.browser], secret)
    /\ last.handler_ran

(***************************************************************************)
(* C15.  /logout.                                                          *)
(***************************************************************************)

\* C15: /logout destroys the session from every state and is idempotent:
\* after /logout the browser is Anonymous whether or not it was
\* Authenticated, a /logout of a browser that has just logged out leaves the
\* same state and answers with the same redirect to / without error, and a
\* browser that is Anonymous stays so, its GET /dashboard redirecting to /,
\* until a callback of that browser succeeds.
C15_Logout ==
    [][/\ Handles /\ last'.route = "logout"
          => /\ last'.status = 302
             /\ last'.location = Some(UrlFor("/"))
             /\ ~HasUser(sess'[last'.browser], secret')
             /\ sess[last'.browser] = EmptySession => sess' = sess
             /\ \A b \in Browsers \ {last'.browser} : sess'[b] = sess[b]
       /\ \A b \in Browsers :
            ~HasUser(sess[b], secret)
            => \/ ~HasUser(sess'[b], secret')
               \/ Handles /\ last'.browser = b /\ CallbackSucceeded
       /\ \A b \in Browsers :
            Handles /\ last'.route = "dashboard" /\ last'.browser = b
                /\ ~HasUser(sess[b], secret)
            => last'.status = 302 /\ last'.location = Some(UrlFor("/"))]_vars

\* a browser that was Authenticated has logged out
C15_Witness ==
    /\ last.route = "logout"
    /\ IsSome(last.user_before)
    /\ sess[last.browser] = EmptySession
    /\ last.status = 302

\* a browser without a UserProfile has logged out
C15_WitnessAgain ==
    /\ last.route = "logout"
    /\ last.user_before = None
    /\ sess[last.browser] = EmptySession
    /\ last.status = 302

(***************************************************************************)
(* C16.  Failures of the provider calls.  requests.post (line 326),        *)
(* token_response.json() (line 341), requests.get (line 349) and           *)
(* user_response.json() (line 361) stand outside any try block: what they  *)
(* raise leaves callback() and reaches Flask, which answers 500.           *)
(***************************************************************************)

\* C16: every failure of a /callback request, including a token-endpoint or
\* user-info call that times out, cannot connect or returns a body that does
\* not parse, is caught inside the callback and answered with a rendered
\* error page with HTTP 400; no callback ends in an unhandled fault.
C16_FailuresCaught ==
    IsCallback
    => \/ last.status = 302 /\ IsSome(last.write_user)
       \/ last.status = 400 /\ last.page # "Unhandled"

(***************************************************************************)
(* C17.  The provider calls of one callback.                               *)
(***************************************************************************)

\* C17: each /callback issues at most one token-endpoint request and at most
\* one user-info request; the user-info request is issued only after the
\* token request of the same callback returned HTTP 200 with a non-empty
\* access token; no request is repeated after a failure.  Requests other
\* than /callback call the provider not at all.
C17_SingleAttempt ==
    /\ last.calls \in {<<>>, <<"token">>, <<"token", "userinfo">>}
    /\ last.calls # <<>> => IsCallback /\ IsSome(last.token_resp)
    /\ last.calls = <<"token">> => last.user_resp = None
    /\ last.calls = <<"token", "userinfo">>
        => /\ Val(last.token_resp).kind = "http"
           /\ Val(last.token_resp).status = 200
           /\ Truthy(Val(last.token_resp).access_token)
           /\ IsSome(last.user_resp)
    /\ TokenFailed => last.calls = <<"token">>

\* the token endpoint has refused the code: one request, none after it
C17_Witness ==
    /\ IsCallback
    /\ last.calls = <<"token">>
    /\ Val(last.token_resp).status = 400
    /\ Failed400("TokenExchangeFailed")

\* both requests have been issued, and the second has failed
C17_WitnessBoth ==
    /\ IsCallback
    /\ last.calls = <<"token", "userinfo">>
    /\ ProfileFailed

(***************************************************************************)
(* C18.  A restart without FLASK_SECRET_KEY.                               *)
(***************************************************************************)

\* the step is a restart that has drawn a secret
Restarted == epoch' # epoch

\* C18: when no signing secret is configured, a restart draws a new secret:
\* none of the oauth_state cookies signed before it is signed with the new
\* secret and no session established before it is recognised; from then on a
\* /callback presenting such a cookie fails with InvalidStateSignature and
\* the guarded routes redirect a browser holding such a session.
C18_RestartForgets ==
    [][~Truthy(env.flask_secret)
       => /\ Restarted
            => /\ secret' # secret
               /\ \A i \in issued : i.key # secret'
               /\ \A b \in Browsers : ~HasUser(sess'[b], secret')
          /\ Handles /\ last'.route = "callback"
                /\ (\E i \in issued : last'.cookie = Some(i.tok) /\ i.key # secret)
            => /\ last'.status = 400
               /\ last'.page = "InvalidStateSignature"
               /\ last'.calls = <<>>
               /\ sess' = sess
          /\ Handles /\ last'.route \in {"welcome", "dashboard"}
                /\ IsSome(sess[last'.browser].user)
                /\ sess[last'.browser].key # secret
            => /\ last'.status = 302
               /\ last'.location = Some(UrlFor("/"))
               /\ ~last'.handler_ran]_vars

\* after a restart, a cookie signed before it and not yet ten minutes old
\* has been refused
C18_Witness ==
    /\ ~Truthy(env.flask_secret)
    /\ epoch > 0
    /\ IsCallback
    /\ \E i \in issued : /\ FromLogin(i)
                         /\ i.key = RandomKey(epoch - 1)
                         /\ now - i.tok[2] <= MaxAge
                         /\ last.state = Some(i.state)
    /\ Truthy(last.code)
    /\ Failed400("InvalidStateSignature")

\* after a restart, /welcome has turned away a browser that was
\* Authenticated before it
C18_WitnessSession ==
    /\ ~Truthy(env.flask_secret)
    /\ epoch > 0
    /\ last.route = "welcome"
    /\ IsSome(sess[last.browser].user)
    /\ sess[last.browser].key = RandomKey(epoch - 1)
    /\ last.status = 302

(***************************************************************************)
(* C19.  Startup.                                                          *)
(***************************************************************************)

\* a variable of the environment is missing or empty
Unset(o) == o = None \/ o = Some("")

\* no request has ever been handled
NeverServed ==
    /\ last = NoRequest
    /\ issued = {}
    /\ minted = 0
    /\ \A b \in Browsers : sess[b] = EmptySession /\ jar[b] = NoCookies

\* C19: if the provider client id or the client secret is missing or empty,
\* startup raises a configuration error and the process never serves any
\* route; a process that serves requests has both set.
C19_FailFast ==
    /\ Unset(env.client_id) \/ Unset(env.client_secret)
        => proc = "failed" /\ NeverServed
    /\ proc = "serving"
        => /\ ~Unset(env.client_id)
           /\ ~Unset(env.client_secret)
    /\ ~NeverServed => proc = "serving"

\* started twice with an empty client secret, the process has failed twice
C19_Witness ==
    /\ env.client_id = Some("cid")
    /\ env.client_secret = Some("")
    /\ epoch = 1
    /\ proc = "failed"

\* a process with both set has served a request
C19_WitnessServing ==
    /\ proc = "serving"
    /\ ~NeverServed

(***************************************************************************)
(* C20.  When the token endpoint is called.                                *)
(***************************************************************************)

\* the request in flight has posted to the token endpoint
TokenRequested == Len(last.calls) > 0 /\ last.calls[1] = "token"

\* a token request comes only from a callback that passed the state check
\* (by the signed cookie or by the emergency branch), has no error parameter
\* and has a non-empty code
TokenRequestGuarded ==
    TokenRequested
    => /\ IsCallback
       /\ last.verified # "no"
       /\ last.error = None
       /\ Truthy(last.code)

(* C20 as stated: a token-endpoint request is issued only by a /callback    *)
(* that (1) passed state verification or took the emergency branch, (2) has *)
(* no error parameter and (3) has a non-empty code; a callback without code *)
(* fails with AuthorizationCodeMissing (HTTP 400) and makes no network      *)
(* call.                                                                    *)

C20_Original ==
    /\ TokenRequestGuarded
    /\ IsCallback /\ ~Truthy(last.code)
        => Failed400("AuthorizationCodeMissing") /\ NoNetworkCall

(* C20 amended: the token request is guarded as stated; a callback without  *)
(* code makes no network call and is answered with 400: with the            *)
(* AuthorizationCodeMissing page when it passed the state check and has no  *)
(* error parameter, with the ProviderError page when it passed the state    *)
(* check and has one, and with the page of the state check that refused it  *)
(* otherwise.                                                               *)

C20_Amended ==
    /\ TokenRequestGuarded
    /\ IsCallback /\ ~Truthy(last.code)
        => /\ NoNetworkCall
           /\ last.status = 400
           /\ SessionUnchanged
           /\ IF last.verified = "no"
                THEN last.page \in {"StateCookieMissing", "InvalidStateSignature",
                                    "StateMismatch"}
              ELSE IF IsSome(last.error)
                THEN last.page = "ProviderError"
              ELSE last.page = "AuthorizationCodeMissing"

\* an honest callback whose code is the empty string
C20_Witness ==
    /\ IsCallback
    /\ last.verified = "cookie"
    /\ last.error = None
    /\ last.code = Some("")
    /\ Failed400("AuthorizationCodeMissing")
    /\ NoNetworkCall

\* a token request by a callback of the emergency branch
C20_WitnessEmergency ==
    /\ TokenRequested
    /\ last.verified = "emergency"
    /\ last.code = Some("abc")

(***************************************************************************)
(* C21.  One UserProfile per session.                                      *)
(***************************************************************************)

\* the callback in flight passed the state check, had no error parameter and
\* a code, and the provider answered both calls with 200, an access token
\* and the profile d
Succeeded(d) ==
    /\ IsCallback
    /\ last.verified # "no"
    /\ last.error = None
    /\ Truthy(last.code)
    /\ last.token_resp = Some([kind |-> "http", status |-> 200, access_token |-> Some("tok")])
    /\ last.user_resp = Some([kind |-> "http", status |-> 200, user_data |-> Some(d)])

\* C21: a browser's session holds at most one UserProfile in every reachable
\* state: a /callback that succeeds while the browser is already
\* Authenticated is not rejected and replaces the stored profile with the
\* newly fetched one, never adding a second.
C21_OneProfile ==
    /\ \A b \in Browsers : Len(sess[b].user) <= 1
    /\ \A d \in RawUsers :
        Succeeded(d) /\ IsSome(last.user_before)
        => /\ last.status = 302
           /\ last.location = Some(UrlFor("/welcome"))
           /\ Len(SessionUser(sess[last.browser], secret)) = 1
           /\ MappedFrom(Val(SessionUser(sess[last.browser], secret)), d)

\* a browser Authenticated as one account has come back as the other
C21_Witness ==
    \E d \in RawUsers :
        /\ Succeeded(d)
        /\ IsSome(last.user_before)
        /\ Val(last.user_before).id # d.id
        /\ Val(SessionUser(sess[last.browser], secret)).id = d.id

(***************************************************************************)
(* C22.  Browsers do not interfere.  Checked with two browsers (SpecTwo).  *)
(***************************************************************************)

\* the request the response in flight after the step answers, as browser b
\* sent it: its route, its cookie and query parameters, and b's own session
OwnRequest(b) ==
    [NoRequest EXCEPT !.route = last'.route, !.browser = b,
                      !.cookie = last'.cookie, !.state = last'.state,
                      !.error = last'.error, !.code = last'.code,
                      !.user_before = SessionUser(sess[b], secret)]

\* the answer to that request, computed from the request, b's own session,
\* the configuration of the process, the clock, the state /login drew and
\* what the provider answered, and from nothing another browser holds
OwnOutcome(b) ==
    LET req == OwnRequest(b)
        tr == IF IsSome(last'.token_resp) THEN Val(last'.token_resp) ELSE AnyTokenResponse
        ur == IF IsSome(last'.user_resp) THEN Val(last'.user_resp) ELSE AnyUserResponse
    IN CASE req.route = "home" -> HomeResponse(req, sess[b], secret)
         [] req.route = "login" ->
                LoginResponse(req, env, secret, Val(Val(last'.location).state), now)
         [] req.route = "callback" -> CallbackResponse(req, provider, secret, now, tr, ur)
         [] req.route = "welcome" -> WelcomeResponse(req, sess[b], secret)
         [] req.route = "dashboard" -> DashboardResponse(req, sess[b], secret)
         [] req.route = "logout" -> LogoutResponse(req)

\* the step hands the response in flight to its browser
Delivers == last.route # "none" /\ last'.route = "none"

C22_WitnessCallback ==
    /\ online = Browsers
    /\ IsCallback
    /\ last.browser = "A"
    /\ IsSome(last.write_user)
    /\ ~HasUser(sess["B"], secret)
    /\ IsSome(jar["B"].oauth_state)

(***************************************************************************)
(* C23.  Overlapping logins in one browser.                                *)
(***************************************************************************)

\* the place of a login in the order the states were drawn
Ordinal(i) == CHOOSE n \in 0 .. MaxLogins : i.state = MintedState(n)

\* browser b has sent a /login
HasLogin(b) == \E i \in issued : i.to = b

\* the most recent /login of browser b
Latest(b) ==
    CHOOSE i \in issued :
        /\ i.to = b
        /\ \A j \in issued : j.to = b => Ordinal(j) <= Ordinal(i)

\* browser b holds the cookie of its most recent login, which the running
\* process signed less than ten minutes ago, and sends it with the callback
\* the step handles
SendsLatest(b) ==
    /\ Handles
    /\ last'.route = "callback"
    /\ last'.browser = b
    /\ HasLogin(b)
    /\ JarCookie(jar[b]) = Some(Latest(b).tok)
    /\ last'.cookie = JarCookie(jar[b])
    /\ Latest(b).key = secret
    /\ now - Latest(b).tok[2] <= MaxAge

\* C23: when a browser performs /login twice before any callback, the second
\* oauth_state cookie replaces the first, so a /callback carrying the first
\* login's state (with the cookie present) fails with StateMismatch and only
\* a callback carrying the most recently minted state passes state
\* verification.
C23_OverlappingLogins ==
    [][/\ Delivers /\ last.route = "login"
          => /\ HasLogin(last.browser)
             /\ JarCookie(jar'[last.browser]) = Some(Latest(last.browser).tok)
             /\ last.set_oauth_state = Some([val |-> Latest(last.browser).tok,
                                             max_age |-> MaxAge])
       /\ \A b \in Browsers :
            SendsLatest(b)
            => /\ \A i \in issued :
                    (i.state # Latest(b).state /\ last'.state = Some(i.state))
                    => /\ last'.status = 400
                       /\ last'.page = "StateMismatch"
                       /\ last'.calls = <<>>
                       /\ sess' = sess
               /\ last'.state = Some(Latest(b).state) => last'.verified = "cookie"
               /\ last'.verified # "no" => last'.state = Some(Latest(b).state)]_vars

\* two logins of one browser without a callback between them, then a callback
\* with the second cookie and the first state
C23_Witness ==
    /\ IsCallback
    /\ minted = 2
    /\ \A i \in issued : i.to = last.browser
    /\ last.state = Some(MintedState(0))
    /\ \E i \in issued : FromLogin(i) /\ Fresh(i) /\ i.state = MintedState(1)
    /\ JarCookie(jar[last.browser]) = last.cookie
    /\ sess[last.browser] = EmptySession
    /\ Failed400("StateMismatch")

\* the same two logins, then a callback with the second cookie and the second
\* state, which passes
C23_WitnessLatest ==
    /\ IsCallback
    /\ minted = 2
    /\ last.state = Some(MintedState(1))
    /\ \E i \in issued : FromLogin(i) /\ Fresh(i) /\ i.state = MintedState(1)
    /\ JarCookie(jar[last.browser]) = last.cookie
    /\ last.verified = "cookie"

(***************************************************************************)
(* C24.  Redirects between the pages of the application end.               *)
(***************************************************************************)

\* the routes whose redirects stay inside the application
Internal == {"home", "welcome", "dashboard", "logout"}

\* the answer to the GET a browser sends when it follows the redirect of
\* resp, its session being what the state shows
Follow(resp) ==
    LET b == resp.browser
        path == Val(resp.location).base
    IN CASE path = "/" -> HomeResponse(Request("home", b), sess[b], secret)
         [] path = "/welcome" -> WelcomeResponse(Request("welcome", b), sess[b], secret)
         [] path = "/dashboard" -> DashboardResponse(Request("dashboard", b), sess[b], secret)

\* the redirects followed from resp until a page is rendered; "many" when
\* the third answer is a redirect still
Hops(resp) ==
    IF resp.status # 302 THEN "none"
    ELSE IF Follow(resp).status # 302 THEN "one"
    ELSE IF Follow(Follow(resp)).status # 302 THEN "two"
    ELSE "many"

\* C24: from any session state that stays fixed, following the redirects of
\* GET /, GET /welcome, GET /dashboard or GET /logout reaches a rendered page
\* after at most two redirects: / redirects to /welcome only when a session
\* is present and the guard redirects to / only when none is, so the browser
\* never cycles between / and /welcome.
C24_NoRedirectLoop ==
    last.route \in Internal
    => /\ Hops(last) \in {"none", "one", "two"}
       /\ last.status \in {200, 302}
       /\ last.status = 302
            => /\ Val(last.location).base \in {"/", "/welcome"}
               /\ Val(last.location).base = "/welcome"
                    => last.route = "home" /\ HasUser(sess[last.browser], secret)
               /\ (Val(last.location).base = "/" /\ last.route # "logout")
                    => last.route \in {"welcome", "dashboard"}
                       /\ ~HasUser(sess[last.browser], secret)

\* GET / of an Authenticated browser: one redirect, then the welcome page
C24_Witness ==
    /\ last.route = "home"
    /\ last.status = 302
    /\ Hops(last) = "one"
    /\ Follow(last).page = "welcome"

\* GET /logout of an Authenticated browser: one redirect, then the home page
C24_WitnessLogout ==
    /\ last.route = "logout"
    /\ IsSome(last.user_before)
    /\ Hops(last) = "one"
    /\ Follow(last).page = "home"

====
